---- MODULE Spec2Model ----
(***************************************************************************)
(* A model of fanekews.py: a Telegram fact-checking bot.                    *)
(*                                                                         *)
(* handle_message gates each text message (validation, per-user rate       *)
(* limit), then runs fact_check under asyncio.wait_for(timeout=40);         *)
(* fact_check consults fact_cache, calls the blocking search_web, awaits    *)
(* the model provider, appends the sources and stores the verdict.          *)
(*                                                                         *)
(* Python strings are TLA+ strings (Len, \o and SubSeq act on them).  A     *)
(* missing field of a provider response (None) is the empty string: the     *)
(* code only ever tests these fields for truthiness, and None and "" are    *)
(* both false.                                                             *)
(***************************************************************************)
EXTENDS Integers, Sequences, FiniteSets, TLC

(***************************************************************************)
(* Program constants.                                                      *)
(***************************************************************************)
MAX_INPUT_LEN == 500
RATE_LIMIT_SECONDS == 5
MAX_EVIDENCE_LEN == 6000

SEPARATOR == "\n\n---\n\n"
TRUNCATED == "\n... [truncated]"
SUMMARY_PREFIX == "Summary: "
SOURCES_HEADER == "\n\n<b>Sources:</b>\n"
\* the prefix of a source line (line 146): a bullet, which is not ASCII in
\* the source, and a space
BULLET == "* "

INSUFFICIENT == "<b>Verdict:</b> Insufficient Evidence\n<b>Confidence:</b> 0%\n<b>Explanation:</b> No reliable sources found."
AI_FAILED == "AI processing failed. Please try again later."
MSG_TIMEOUT == " Request timed out. Please try again."
MSG_ERROR == " Error processing request."
MSG_INVALID == "Please send a valid claim."
MSG_TOO_LONG == "Message too long (max 500 characters)."
MSG_WAIT == "Please wait before sending another request."
MSG_THINKING == "News-checking... Please wait."

(***************************************************************************)
(* Bounds of the model.                                                    *)
(***************************************************************************)
\* handle_message invocations (updates delivered to the bot)
NumTasks == 2
\* results in one search response of the retriever specification
MaxResults == 2

(***************************************************************************)
(* Python string operations.                                               *)
(***************************************************************************)
Char(s, i) == SubSeq(s, i, i)

IsSpace(c) == c \in {" ", "\n", "\t", "\r"}

RECURSIVE LStrip(_)
LStrip(s) ==
    IF Len(s) > 0 /\ IsSpace(Char(s, 1)) THEN LStrip(SubSeq(s, 2, Len(s))) ELSE s

RECURSIVE RStrip(_)
RStrip(s) ==
    IF Len(s) > 0 /\ IsSpace(Char(s, Len(s)))
    THEN RStrip(SubSeq(s, 1, Len(s) - 1))
    ELSE s

\* str.strip()
Strip(s) == RStrip(LStrip(s))

\* sep.join(parts)
RECURSIVE Join(_, _)
Join(sep, parts) ==
    IF Len(parts) = 0 THEN ""
    ELSE IF Len(parts) = 1 THEN parts[1]
    ELSE parts[1] \o sep \o Join(sep, Tail(parts))

\* html.escape(c) of one character (quote=True)
EscapeChar(c) ==
    CASE c = "&" -> "&amp;"
      [] c = "<" -> "&lt;"
      [] c = ">" -> "&gt;"
      [] c = "\"" -> "&quot;"
      [] c = "'" -> "&#x27;"
      [] OTHER -> c

\* html.escape(s)
RECURSIVE escape(_)
escape(s) ==
    IF Len(s) = 0 THEN "" ELSE EscapeChar(Char(s, 1)) \o escape(SubSeq(s, 2, Len(s)))

EndsWith(s, suffix) ==
    /\ Len(s) >= Len(suffix)
    /\ SubSeq(s, Len(s) - Len(suffix) + 1, Len(s)) = suffix

\* a string of n copies of the character c
RECURSIVE Rep(_, _)
Rep(c, n) ==
    IF n = 0 THEN ""
    ELSE IF n % 2 = 0 THEN LET h == Rep(c, n \div 2) IN h \o h
    ELSE c \o Rep(c, n - 1)

(***************************************************************************)
(* search_web (lines 67-104).  A response of the search provider is         *)
(* [raises, answer, results]: raises says the call raised; results is a     *)
(* sequence of [url, content].                                             *)
(***************************************************************************)
EmptyBundle == [evidence |-> "", urls |-> <<>>]

\* lines 85-93, the text part: content.strip() of every result with content
RECURSIVE ResultParts(_)
ResultParts(results) ==
    IF Len(results) = 0 THEN <<>>
    ELSE (IF results[1].content # "" THEN <<Strip(results[1].content)>> ELSE <<>>)
         \o ResultParts(Tail(results))

\* lines 85-90, the url part: every truthy url, in order
RECURSIVE ResultUrls(_)
ResultUrls(results) ==
    IF Len(results) = 0 THEN <<>>
    ELSE (IF results[1].url # "" THEN <<results[1].url>> ELSE <<>>)
         \o ResultUrls(Tail(results))

\* lines 79-93: the parts list
Parts(resp) ==
    (IF resp.answer # "" THEN <<SUMMARY_PREFIX \o resp.answer>> ELSE <<>>)
    \o ResultParts(resp.results)

\* line 95
Joined(resp) == Join(SEPARATOR, Parts(resp))

\* lines 97-98
Truncate(evidence) ==
    IF Len(evidence) > MAX_EVIDENCE_LEN
    THEN SubSeq(evidence, 1, MAX_EVIDENCE_LEN) \o TRUNCATED
    ELSE evidence

RECURSIVE TruncateEach(_)
TruncateEach(parts) ==
    IF Len(parts) = 0 THEN <<>>
    ELSE <<Truncate(parts[1])>> \o TruncateEach(Tail(parts))

\* a retriever that caps every segment instead of the joined string
search_web_per_segment(resp) ==
    IF resp.raises THEN EmptyBundle
    ELSE [evidence |-> Join(SEPARATOR, TruncateEach(Parts(resp))),
          urls |-> ResultUrls(resp.results)]

\* a retriever that hands the provider's error on as evidence
search_web_reporting(resp) ==
    IF resp.raises THEN [evidence |-> "Search failed", urls |-> <<>>]
    ELSE [evidence |-> Truncate(Joined(resp)), urls |-> ResultUrls(resp.results)]

search_web(resp) ==
    IF resp.raises THEN EmptyBundle
    ELSE [evidence |-> Truncate(Joined(resp)), urls |-> ResultUrls(resp.results)]


(***************************************************************************)
(* State.                                                                  *)
(*                                                                         *)
(* user_last_request and fact_cache are the two module-level maps.  Every   *)
(* update delivered to the bot is one handle_message coroutine, a task of   *)
(* the model; task[t] holds its locals, its position, the state of the      *)
(* fact_check call it wraps, and a record of what the call did.             *)
(*                                                                         *)
(* The coroutines share one event loop: a step of the model is the code a   *)
(* coroutine runs between two awaits (search_web is a blocking call, not   *)
(* an await).  The dispatcher is the library's: the model lets it start a   *)
(* handler for each update without waiting for the previous one, which     *)
(* includes the runs of a dispatcher that handles one update at a time.    *)
(***************************************************************************)
VARIABLES
    user_last_request,  \* line 50: user id -> timestamp (present keys only)
    fact_cache,         \* line 51: claim -> rendered verdict
    writer,             \* claim -> the task whose store is the current entry
    task,               \* the handle_message invocations
    sresp,              \* retriever specification: the provider's response
    sout                \* retriever specification: what search_web returned

vars == <<user_last_request, fact_cache, writer, task, sresp, sout>>

Tasks == 1 .. NumTasks
Users == {1, 2}
\* values of time.time() around the cooldown: before it has passed since
\* the epoch, and up to two cooldowns after it
Times ==
    { 0, RATE_LIMIT_SECONDS - 1, RATE_LIMIT_SECONDS,
      2 * RATE_LIMIT_SECONDS - 1, 2 * RATE_LIMIT_SECONDS }

LongMessage == Rep("x", MAX_INPUT_LEN + 1)
Messages == {"", " a ", "b", LongMessage}

NoResults == <<>>
NoResponse == [raises |-> FALSE, answer |-> "", results |-> NoResults]
SearchResponses ==
    { [raises |-> TRUE, answer |-> "", results |-> NoResults],
      [raises |-> FALSE, answer |-> "", results |-> NoResults],
      [raises |-> FALSE, answer |-> "",
       results |-> <<[url |-> "u", content |-> " "]>>],
      [raises |-> FALSE, answer |-> "s", results |-> NoResults],
      [raises |-> FALSE, answer |-> "",
       results |-> <<[url |-> "a&b", content |-> "c"], [url |-> "a&b", content |-> ""]>>] }

\* what awaiting the model provider yields: an exception, or output_text
ModelOutputs ==
    { [raises |-> TRUE, text |-> ""],
      [raises |-> FALSE, text |-> " T\n"],
      [raises |-> FALSE, text |-> " "] }

NoBundle == [got |-> FALSE, evidence |-> "", urls |-> <<>>]
GotBundle(b) == [got |-> TRUE, evidence |-> b.evidence, urls |-> b.urls]

\* what the await of line 123 gave the call, once it has given something
NoAnswer == [got |-> FALSE, raises |-> FALSE, text |-> ""]
GotAnswer(out) == [got |-> TRUE, raises |-> out.raises, text |-> out.text]

NewTask ==
    [ pc |-> "idle", user |-> 0, claim |-> "", now |-> -1, gate |-> "none",
      fc |-> "none", bundle |-> NoBundle, result |-> "", reply |-> "",
      searches |-> 0, models |-> 0, writes |-> 0, outcome |-> "none",
      after |-> {}, saw |-> 0, raised |-> FALSE, answer |-> NoAnswer,
      overdue |-> FALSE ]

Put(f, k, v) == [x \in DOMAIN f \cup {k} |-> IF x = k THEN v ELSE f[x]]

EmptyMap == [x \in {} |-> 0]

(***************************************************************************)
(* The rate limiter of handle_message (lines 176-183).                      *)
(***************************************************************************)
\* user_last_request[user_id] on a defaultdict(float): a missing key is
\* inserted with 0.0
ReadDefault(ulr, u) == IF u \in DOMAIN ulr THEN ulr ELSE Put(ulr, u, 0)

\* a gate that records the timestamp before it compares
rate_gate_record_first(ulr, u, tnow) ==
    LET read == ReadDefault(ulr, u)
    IN  [allowed |-> ~(tnow - read[u] < RATE_LIMIT_SECONDS), ulr |-> Put(read, u, tnow)]

\* a gate that compares the distance between the two timestamps
rate_gate_distance(ulr, u, tnow) ==
    LET read == ReadDefault(ulr, u)
        apart == IF tnow >= read[u] THEN tnow - read[u] ELSE read[u] - tnow
    IN  IF apart < RATE_LIMIT_SECONDS
        THEN [allowed |-> FALSE, ulr |-> read]
        ELSE [allowed |-> TRUE, ulr |-> Put(read, u, tnow)]

\* lines 176-183: compare, and on success record
rate_gate(ulr, u, tnow) ==
    LET read == ReadDefault(ulr, u)
    IN  IF tnow - read[u] < RATE_LIMIT_SECONDS
        THEN [allowed |-> FALSE, ulr |-> read]
        ELSE [allowed |-> TRUE, ulr |-> Put(read, u, tnow)]

\* line 183 stands before the first await of the accepted path (line 185)
RecordAfterAwait == FALSE
RecordBeforeAwait == TRUE

(***************************************************************************)
(* fact_check (lines 107-151).                                             *)
(***************************************************************************)
RECURSIVE BulletLines(_)
BulletLines(urls) ==
    IF Len(urls) = 0 THEN <<>>
    ELSE <<BULLET \o escape(urls[1])>> \o BulletLines(Tail(urls))

\* the urls without their repetitions, in order of first appearance
RECURSIVE Distinct(_, _)
Distinct(urls, seen) ==
    IF Len(urls) = 0 THEN <<>>
    ELSE (IF urls[1] \in seen THEN <<>> ELSE <<urls[1]>>)
         \o Distinct(Tail(urls), seen \cup {urls[1]})

\* a sources section that lists every url once
AddSourcesDistinct(verdict_text, urls) ==
    IF Len(urls) > 0
    THEN verdict_text \o SOURCES_HEADER \o Join("\n", BulletLines(Distinct(urls, {})))
    ELSE verdict_text

\* lines 143-146
AddSources(verdict_text, urls) ==
    IF Len(urls) > 0
    THEN verdict_text \o SOURCES_HEADER \o Join("\n", BulletLines(urls))
    ELSE verdict_text

\* a fact_check that also stores the fixed verdict and the failure message
fact_check_begin_caching(cache, c, user_id, resp) ==
    IF c \in DOMAIN cache
    THEN [next |-> "return", text |-> cache[c], cache |-> cache,
          stored |-> FALSE, searched |-> FALSE, bundle |-> NoBundle]
    ELSE LET b == search_web(resp)
         IN  IF Strip(b.evidence) = ""
             THEN [next |-> "return", text |-> INSUFFICIENT,
                   cache |-> Put(cache, c, INSUFFICIENT), stored |-> TRUE,
                   searched |-> TRUE, bundle |-> GotBundle(b)]
             ELSE [next |-> "await_model", text |-> "", cache |-> cache,
                   stored |-> FALSE, searched |-> TRUE, bundle |-> GotBundle(b),
                   metadata |-> user_id]

\* a fact_check that looks its verdicts up per user
fact_check_begin_per_user(cache, c, user_id, resp) ==
    LET key == c \o "@" \o ToString(user_id)
    IN  IF key \in DOMAIN cache
        THEN [next |-> "return", text |-> cache[key], cache |-> cache,
              stored |-> FALSE, searched |-> FALSE, bundle |-> NoBundle]
        ELSE LET b == search_web(resp)
             IN  IF Strip(b.evidence) = ""
                 THEN [next |-> "return", text |-> INSUFFICIENT, cache |-> cache,
                       stored |-> FALSE, searched |-> TRUE, bundle |-> GotBundle(b)]
                 ELSE [next |-> "await_model", text |-> "", cache |-> cache,
                       stored |-> FALSE, searched |-> TRUE, bundle |-> GotBundle(b),
                       metadata |-> user_id]

\* lines 109-135: from the cache check to the await of the model call;
\* user_id goes into the metadata of the model request (line 134) and
\* nowhere else
fact_check_begin(cache, c, user_id, resp) ==
    IF c \in DOMAIN cache
    THEN [next |-> "return", text |-> cache[c], cache |-> cache,
          stored |-> FALSE, searched |-> FALSE, bundle |-> NoBundle]
    ELSE LET b == search_web(resp)
         IN  IF Strip(b.evidence) = ""
             THEN [next |-> "return", text |-> INSUFFICIENT, cache |-> cache,
                   stored |-> FALSE, searched |-> TRUE, bundle |-> GotBundle(b)]
             ELSE [next |-> "await_model", text |-> "", cache |-> cache,
                   stored |-> FALSE, searched |-> TRUE, bundle |-> GotBundle(b),
                   metadata |-> user_id]

\* a fact_check that stores whatever it returns
fact_check_end_caching(cache, c, urls, out) ==
    IF out.raises
    THEN [text |-> AI_FAILED, cache |-> Put(cache, c, AI_FAILED), stored |-> TRUE,
          ok |-> FALSE]
    ELSE LET verdict_text == AddSources(Strip(out.text), urls)
         IN  [text |-> verdict_text, cache |-> Put(cache, c, verdict_text),
              stored |-> TRUE, ok |-> TRUE]

\* a fact_check that stores the verdict before the sources are added
fact_check_end_early_store(cache, c, urls, out) ==
    IF out.raises
    THEN [text |-> AI_FAILED, cache |-> cache, stored |-> FALSE, ok |-> FALSE]
    ELSE [text |-> AddSources(Strip(out.text), urls),
          cache |-> Put(cache, c, Strip(out.text)), stored |-> TRUE, ok |-> TRUE]

\* a fact_check that leaves an entry it finds at store time in place
fact_check_end_keep_first(cache, c, urls, out) ==
    IF out.raises
    THEN [text |-> AI_FAILED, cache |-> cache, stored |-> FALSE, ok |-> FALSE]
    ELSE LET verdict_text == AddSources(Strip(out.text), urls)
         IN  [text |-> verdict_text,
              cache |-> IF c \in DOMAIN cache THEN cache ELSE Put(cache, c, verdict_text),
              stored |-> c \notin DOMAIN cache, ok |-> TRUE]

\* lines 137-151: from the model's answer to the return
fact_check_end(cache, c, urls, out) ==
    IF out.raises
    THEN [text |-> AI_FAILED, cache |-> cache, stored |-> FALSE, ok |-> FALSE]
    ELSE LET verdict_text == AddSources(Strip(out.text), urls)
         IN  [text |-> verdict_text, cache |-> Put(cache, c, verdict_text),
              stored |-> TRUE, ok |-> TRUE]

\* asyncio.wait_for (lines 189-192) cancels the call it wraps when the
\* deadline expires; CancelledError is no Exception, so line 139 lets it pass
NotCancelled == "model_wait"
AfterTimeout == "cancelled"

(***************************************************************************)
(* handle_message (lines 161-204), one action per stretch between awaits.  *)
(***************************************************************************)
Set(t, r) == [task EXCEPT ![t] = r]

Returned(t) == task[t].fc = "done"

\* tavily_client.search (line 71) is a synchronous call made on the event
\* loop's thread: until it returns, the loop runs no other coroutine, no
\* dispatcher step and no timer
Searching(t) == task[t].fc = "searching"
LoopFree(t) == \A s \in Tasks \ {t} : ~Searching(s)

\* Lines 162-185: the update arrives; validation, the rate limiter, and the
\* first await.  Handlers start in the order the updates arrive.
Receive(t, u, msg, tnow) ==
    /\ LoopFree(t)
    /\ task[t].pc = "idle"
    /\ \A s \in Tasks : s < t => task[s].pc # "idle"
    /\ LET c == Strip(msg)
           g == rate_gate(user_last_request, u, tnow)
           base == [task[t] EXCEPT !.user = u, !.claim = c]
       IN  IF c = ""
           THEN /\ task' = Set(t, [base EXCEPT !.pc = "reply", !.gate = "invalid",
                                               !.reply = MSG_INVALID])
                /\ UNCHANGED user_last_request
           ELSE IF Len(c) > MAX_INPUT_LEN
           THEN /\ task' = Set(t, [base EXCEPT !.pc = "reply", !.gate = "too_long",
                                               !.reply = MSG_TOO_LONG])
                /\ UNCHANGED user_last_request
           ELSE IF ~g.allowed
           THEN /\ task' = Set(t, [base EXCEPT !.pc = "reply", !.gate = "limited",
                                               !.now = tnow, !.reply = MSG_WAIT])
                /\ user_last_request' = g.ulr
           ELSE /\ task' = Set(t, [base EXCEPT !.pc = "typing", !.gate = "accepted",
                                               !.now = tnow])
                /\ user_last_request' =
                       IF RecordBeforeAwait THEN g.ulr
                       ELSE ReadDefault(user_last_request, u)
    /\ UNCHANGED <<fact_cache, writer, sresp, sout>>

\* Lines 167, 171, 178: the reply of a rejected message is sent, or the
\* transport call raises.
ReplyDone(t, ok) ==
    /\ LoopFree(t)
    /\ task[t].pc = "reply"
    /\ task' = Set(t, [task[t] EXCEPT !.pc = IF ok THEN "done" ELSE "raised"])
    /\ UNCHANGED <<user_last_request, fact_cache, writer, sresp, sout>>

\* Line 185 returns (or raises); line 186 is awaited next.
SendActionDone(t, ok) ==
    /\ LoopFree(t)
    /\ task[t].pc = "typing"
    /\ task' = Set(t, [task[t] EXCEPT !.pc = IF ok THEN "placeholder" ELSE "raised",
                                      !.reply = IF ok THEN MSG_THINKING ELSE @])
    /\ user_last_request' =
           IF RecordBeforeAwait THEN user_last_request
           ELSE Put(user_last_request, task[t].user, task[t].now)
    /\ UNCHANGED <<fact_cache, writer, sresp, sout>>

\* Line 186 returns (or raises); lines 188-192 start fact_check under
\* wait_for.
PlaceholderDone(t, ok) ==
    /\ LoopFree(t)
    /\ task[t].pc = "placeholder"
    /\ task' = Set(t, [task[t] EXCEPT !.pc = IF ok THEN "wait_for" ELSE "raised",
                                      !.fc = IF ok THEN "created" ELSE @])
    /\ UNCHANGED <<user_last_request, fact_cache, writer, sresp, sout>>

\* fact_check runs from line 109 to the cache hit (line 111) or into the
\* call of the search provider (lines 113, 71), which holds the event loop.
\* On a return wait_for hands the text to line 194.
FactCheckStart(t) ==
    /\ LoopFree(t)
    /\ task[t].pc = "wait_for"
    /\ task[t].fc = "created"
    /\ LET c == task[t].claim
           r == fact_check_begin(fact_cache, c, task[t].user, NoResponse)
           seen == [task[t] EXCEPT
                       !.after = {s \in Tasks : Returned(s)},
                       !.saw = IF c \in DOMAIN writer THEN writer[c] ELSE 0]
       IN  IF r.searched
           THEN task' = Set(t, [seen EXCEPT !.fc = "searching", !.searches = @ + 1])
           ELSE task' = Set(t, [seen EXCEPT
                                   !.fc = "done", !.result = r.text,
                                   !.outcome = "hit",
                                   !.pc = "edit_result", !.reply = r.text])
    /\ UNCHANGED <<user_last_request, fact_cache, writer, sresp, sout>>

\* The search provider answers or raises (lines 71-104); fact_check goes on
\* to the return of line 116 or to its first await (line 123).  Nothing ran
\* since line 110, so the cache check has the same outcome.
SearchReturn(t, resp) ==
    /\ Searching(t)
    /\ LET c == task[t].claim
           r == fact_check_begin(fact_cache, c, task[t].user, resp)
           stored == r.stored
           got == [task[t] EXCEPT
                      !.bundle = r.bundle,
                      !.raised = resp.raises,
                      !.writes = @ + (IF stored THEN 1 ELSE 0)]
       IN  /\ fact_cache' = r.cache
           /\ writer' = IF stored THEN Put(writer, c, t) ELSE writer
           /\ IF r.next = "return"
              THEN task' = Set(t, [got EXCEPT
                                      !.fc = "done", !.result = r.text,
                                      !.outcome = "insufficient",
                                      !.pc = "edit_result", !.reply = r.text])
              ELSE task' = Set(t, [got EXCEPT !.fc = "model_wait", !.models = @ + 1])
    /\ UNCHANGED <<user_last_request, sresp, sout>>

\* a model call that is issued a second time when the first one raises
ModelReturnRetrying(t, out) ==
    /\ LoopFree(t)
    /\ task[t].fc = "model_wait"
    /\ ~task[t].overdue
    /\ LET c == task[t].claim
           r == fact_check_end(fact_cache, c, task[t].bundle.urls, out)
           stored == r.stored
           ended == [task[t] EXCEPT
                        !.fc = "done", !.result = r.text,
                        !.answer = GotAnswer(out),
                        !.writes = @ + (IF stored THEN 1 ELSE 0)]
       IN  /\ fact_cache' = r.cache
           /\ writer' = IF stored THEN Put(writer, c, t) ELSE writer
           /\ IF out.raises /\ task[t].models < 2
              THEN task' = Set(t, [task[t] EXCEPT !.models = @ + 1])
              ELSE IF task[t].pc = "wait_for"
              THEN task' = Set(t, [ended EXCEPT
                                      !.outcome = IF r.ok THEN "ok" ELSE "failed",
                                      !.pc = "edit_result", !.reply = r.text])
              ELSE task' = Set(t, ended)
    /\ UNCHANGED <<user_last_request, sresp, sout>>

\* The model call returns or raises (lines 137-151).  A call that was
\* abandoned has no handler waiting for it.
ModelReturn(t, out) ==
    /\ LoopFree(t)
    /\ task[t].fc = "model_wait"
    /\ ~task[t].overdue
    /\ LET c == task[t].claim
           r == fact_check_end(fact_cache, c, task[t].bundle.urls, out)
           stored == r.stored
           ended == [task[t] EXCEPT
                        !.fc = "done", !.result = r.text,
                        !.answer = GotAnswer(out),
                        !.writes = @ + (IF stored THEN 1 ELSE 0)]
       IN  /\ fact_cache' = r.cache
           /\ writer' = IF stored THEN Put(writer, c, t) ELSE writer
           /\ IF task[t].pc = "wait_for"
              THEN task' = Set(t, [ended EXCEPT
                                      !.outcome = IF r.ok THEN "ok" ELSE "failed",
                                      !.pc = "edit_result", !.reply = r.text])
              ELSE task' = Set(t, ended)
    /\ UNCHANGED <<user_last_request, sresp, sout>>

\* a timeout branch that gives the user's cooldown back
TimeoutReleasing(t) ==
    /\ LoopFree(t)
    /\ task[t].pc = "wait_for"
    /\ task[t].fc = "model_wait"
    /\ task' = Set(t, [task[t] EXCEPT !.fc = AfterTimeout, !.outcome = "timeout",
                                      !.pc = "edit_timeout", !.reply = MSG_TIMEOUT])
    /\ user_last_request' = Put(user_last_request, task[t].user, 0)
    /\ UNCHANGED <<fact_cache, writer, sresp, sout>>

\* The 40-second deadline expires while fact_check awaits the model (lines
\* 189-192, 200-201).
Timeout(t) ==
    /\ LoopFree(t)
    /\ task[t].pc = "wait_for"
    /\ task[t].fc = "model_wait"
    /\ task' = Set(t, [task[t] EXCEPT !.fc = AfterTimeout, !.outcome = "timeout",
                                      !.pc = "edit_timeout", !.reply = MSG_TIMEOUT])
    /\ UNCHANGED <<user_last_request, fact_cache, writer, sresp, sout>>

\* The 40 seconds of wait_for (line 191) run out while search_web holds the
\* event loop: the timer cannot fire before the loop runs again.  When the
\* search returns into the await of line 123 the timer is due and cancels
\* the call (Timeout) before a response can arrive; when it returns into
\* line 116 the call completes, late.
SearchOverrun(t) ==
    /\ Searching(t)
    /\ ~task[t].overdue
    /\ task' = Set(t, [task[t] EXCEPT !.overdue = TRUE])
    /\ UNCHANGED <<user_last_request, fact_cache, writer, sresp, sout>>

\* Line 194 returns, or raises into line 202.
EditResultDone(t, ok) ==
    /\ LoopFree(t)
    /\ task[t].pc = "edit_result"
    /\ task' = Set(t, [task[t] EXCEPT !.pc = IF ok THEN "done" ELSE "edit_error",
                                      !.reply = IF ok THEN @ ELSE MSG_ERROR])
    /\ UNCHANGED <<user_last_request, fact_cache, writer, sresp, sout>>

\* Lines 201 and 204 return, or raise out of the handler.
EditFailureDone(t, ok) ==
    /\ LoopFree(t)
    /\ task[t].pc \in {"edit_timeout", "edit_error"}
    /\ task' = Set(t, [task[t] EXCEPT !.pc = IF ok THEN "done" ELSE "raised"])
    /\ UNCHANGED <<user_last_request, fact_cache, writer, sresp, sout>>

NoOutput == [set |-> FALSE, evidence |-> "", urls |-> <<>>]

Init ==
    /\ user_last_request = EmptyMap
    /\ fact_cache = EmptyMap
    /\ writer = EmptyMap
    /\ task = [t \in Tasks |-> NewTask]
    /\ sresp = NoResponse
    /\ sout = NoOutput

(***************************************************************************)
(* The environment of a specification: the updates that arrive (user,      *)
(* text, the values time.time() can have when update t arrives), what the  *)
(* providers answer, and                                                   *)
(* whether a Telegram call can raise.  Every specification runs the same   *)
(* actions; it draws their inputs from its environment.                    *)
(***************************************************************************)
NextIn(E) ==
    \/ \E t \in Tasks :
           \E u \in E.users, msg \in E.messages, tnow \in E.times[t] :
               Receive(t, u, msg, tnow)
    \/ \E t \in Tasks, ok \in E.transport : ReplyDone(t, ok)
    \/ \E t \in Tasks, ok \in E.transport : SendActionDone(t, ok)
    \/ \E t \in Tasks, ok \in E.transport : PlaceholderDone(t, ok)
    \/ \E t \in Tasks : FactCheckStart(t)
    \/ \E t \in Tasks, resp \in E.responses : SearchReturn(t, resp)
    \/ \E t \in Tasks, out \in E.outputs : ModelReturn(t, out)
    \/ \E t \in Tasks : Timeout(t)
    \/ \E t \in Tasks, ok \in E.transport : EditResultDone(t, ok)
    \/ \E t \in Tasks, ok \in E.transport : EditFailureDone(t, ok)

\* Messages of one user, empty ones among them, arrive a cooldown apart; the
\* providers answer in every way; Telegram calls succeed.
Env ==
    [ users |-> {1}, messages |-> {"", " a ", "b"},
      times |-> [t \in Tasks |-> {RATE_LIMIT_SECONDS * t}],
      responses |-> SearchResponses, outputs |-> ModelOutputs,
      transport |-> {TRUE} ]

Next == NextIn(Env)

Spec == Init /\ [][Next]_vars

\* Messages of two users, valid or not, arrive at any of the times; the
\* search finds evidence and the model answers (or the deadline expires).
GateEnv ==
    [ users |-> Users, messages |-> {"", " a ", LongMessage},
      times |-> [t \in Tasks |-> Times],
      responses |-> {[raises |-> FALSE, answer |-> "s", results |-> NoResults]},
      outputs |-> {[raises |-> FALSE, text |-> " T\n"]},
      transport |-> {TRUE} ]

NextGate == NextIn(GateEnv)

SpecGate == Init /\ [][NextGate]_vars

\* Messages of one user arrive at any of the times; each provider answers
\* or raises; a Telegram call succeeds or raises.
FaultEnv ==
    [ users |-> {1}, messages |-> {" a "},
      times |-> [t \in Tasks |-> Times],
      responses |-> { [raises |-> TRUE, answer |-> "", results |-> NoResults],
                      [raises |-> FALSE, answer |-> "s", results |-> NoResults] },
      outputs |-> { [raises |-> TRUE, text |-> ""],
                    [raises |-> FALSE, text |-> " T\n"] },
      transport |-> BOOLEAN ]

NextFault == NextIn(FaultEnv)

SpecFault == Init /\ [][NextFault]_vars

\* The same handlers with the time the search provider takes: a search can
\* outlast the deadline.
TimedEnv ==
    [ users |-> {1}, messages |-> {"", " a "},
      times |-> [t \in Tasks |-> {RATE_LIMIT_SECONDS * t}],
      responses |-> { NoResponse,
                      [raises |-> FALSE, answer |-> "s", results |-> NoResults] },
      outputs |-> { [raises |-> FALSE, text |-> " T\n"] },
      transport |-> {TRUE} ]

NextTimed ==
    \/ NextIn(TimedEnv)
    \/ \E t \in Tasks : SearchOverrun(t)

SpecTimed == Init /\ [][NextTimed]_vars

\* Messages of two users arrive a cooldown apart; the search finds evidence
\* and the model answers in every way.
UsersEnv ==
    [ users |-> Users, messages |-> {"", " a "},
      times |-> [t \in Tasks |-> {RATE_LIMIT_SECONDS * t}],
      responses |-> { [raises |-> FALSE, answer |-> "s", results |-> NoResults],
                      [raises |-> FALSE, answer |-> "",
                       results |-> <<[url |-> "u", content |-> "c"]>>] },
      outputs |-> ModelOutputs,
      transport |-> {TRUE} ]

NextUsers == NextIn(UsersEnv)

SpecUsers == Init /\ [][NextUsers]_vars

(***************************************************************************)
(* The retriever alone: search_web applied to one response of the search   *)
(* provider, with texts around the cap.                                    *)
(***************************************************************************)
RetrieverAnswers == {"", "ok", Rep("a", MAX_EVIDENCE_LEN - Len(SUMMARY_PREFIX))}

RetrieverContents ==
    { "", " ", " c ", Rep("x", MAX_EVIDENCE_LEN \div 2),
      Rep("y", MAX_EVIDENCE_LEN), Rep("z", MAX_EVIDENCE_LEN + 1) }

RetrieverResults == [url : {"", "u"}, content : RetrieverContents]

RetrieverResponses ==
    { [raises |-> TRUE, answer |-> "", results |-> NoResults] }
    \cup
    [ raises : {FALSE}, answer : RetrieverAnswers,
      results : UNION {[1 .. n -> RetrieverResults] : n \in 0 .. MaxResults} ]

\* lines 67-104, called once on the response
RunSearch ==
    /\ ~sout.set
    /\ LET b == search_web(sresp)
       IN  sout' = [set |-> TRUE, evidence |-> b.evidence, urls |-> b.urls]
    /\ UNCHANGED <<user_last_request, fact_cache, writer, task, sresp>>

InitSearch ==
    /\ user_last_request = EmptyMap
    /\ fact_cache = EmptyMap
    /\ writer = EmptyMap
    /\ task = [t \in Tasks |-> NewTask]
    /\ sresp \in RetrieverResponses
    /\ sout = NoOutput

NextSearch == RunSearch

SpecSearch == InitSearch /\ [][NextSearch]_vars

(***************************************************************************)
(* Reading a rendered text.                                                *)
(***************************************************************************)
\* the first position at or after i where sub occurs in s, 0 when none does
RECURSIVE FindFrom(_, _, _)
FindFrom(s, sub, i) ==
    IF i + Len(sub) - 1 > Len(s) THEN 0
    ELSE IF SubSeq(s, i, i + Len(sub) - 1) = sub THEN i
    ELSE FindFrom(s, sub, i + 1)

Contains(s, sub) == FindFrom(s, sub, 1) > 0

RECURSIVE SplitLines(_)
SplitLines(s) ==
    LET p == FindFrom(s, "\n", 1)
    IN  IF p = 0 THEN <<s>>
        ELSE <<SubSeq(s, 1, p - 1)>> \o SplitLines(SubSeq(s, p + 1, Len(s)))

\* the lines that follow the Sources header of a text that has one
SourceLines(text) ==
    LET p == FindFrom(text, SOURCES_HEADER, 1)
    IN  SplitLines(SubSeq(text, p + Len(SOURCES_HEADER), Len(text)))

Gated(t) == task[t].gate \in {"limited", "accepted"}
Accepted(t) == task[t].gate = "accepted"
InFlight(t) == task[t].pc \in {"typing", "placeholder", "wait_for"}

(***************************************************************************)
(* C1.  Every value stored in fact_cache is the text a call returned on    *)
(* the success path of the model call; the failure message, the timeout    *)
(* message and the unexpected-error message are never stored.              *)
(***************************************************************************)
C1_CacheHoldsOnlyVerdicts ==
    \A c \in DOMAIN fact_cache :
        /\ fact_cache[c] \notin {AI_FAILED, MSG_TIMEOUT, MSG_ERROR}
        /\ \E t \in Tasks :
               /\ task[t].claim = c
               /\ task[t].outcome = "ok"
               /\ task[t].result = fact_cache[c]

\* a verdict is cached for a claim on which another call failed or timed out
C1_Witness ==
    \E t1, t2 \in Tasks :
        /\ task[t1].claim = task[t2].claim
        /\ task[t1].outcome = "ok"
        /\ task[t2].outcome \in {"failed", "timeout"}
        /\ task[t2].pc = "done"
        /\ task[t1].claim \in DOMAIN fact_cache

(***************************************************************************)
(* C2.  As claimed: whatever the first call's outcome, a second call with  *)
(* the same claim, started after the first returned, returns the first     *)
(* call's text without a search or a model call.                           *)
(***************************************************************************)
C2_Original ==
    \A t1, t2 \in Tasks :
        ( /\ t1 \in task[t2].after
          /\ task[t1].claim = task[t2].claim
          /\ Returned(t2) )
        => /\ task[t2].result = task[t1].result
           /\ task[t2].searches = 0
           /\ task[t2].models = 0

(***************************************************************************)
(* C2, amended.  When the first call ended on the model's success path and *)
(* the entry it stored is the one in the cache when the second call        *)
(* starts, the second call returns the identical text without a search or  *)
(* a model call.  When the first call returned the Insufficient-Evidence   *)
(* verdict or the failure message and the second call finds no entry, the  *)
(* second call invokes the search provider again.                          *)
(***************************************************************************)
C2_Amended ==
    \A t1, t2 \in Tasks :
        ( /\ t1 \in task[t2].after
          /\ task[t1].claim = task[t2].claim )
        => /\ (task[t1].outcome = "ok" /\ task[t2].saw = t1)
              => /\ Returned(t2)
                 /\ task[t2].outcome = "hit"
                 /\ task[t2].result = task[t1].result
                 /\ task[t2].searches = 0
                 /\ task[t2].models = 0
           /\ (task[t1].outcome \in {"insufficient", "failed"} /\ task[t2].saw = 0)
              => task[t2].searches = 1

\* a second call served from the entry the first stored, sources included
C2_Witness ==
    \E t1, t2 \in Tasks :
        /\ t1 \in task[t2].after
        /\ task[t1].outcome = "ok"
        /\ Len(task[t1].bundle.urls) > 0
        /\ task[t2].saw = t1
        /\ task[t2].outcome = "hit"
        /\ task[t2].pc = "done"

(***************************************************************************)
(* C3.  Two requests of one user whose timestamps are less than            *)
(* RATE_LIMIT_SECONDS apart never both pass the gate, however the          *)
(* handlers interleave.                                                    *)
(***************************************************************************)
C3_GateIsAtomic ==
    \A t1, t2 \in Tasks :
        ( /\ t1 # t2
          /\ task[t1].user = task[t2].user
          /\ Accepted(t1)
          /\ Accepted(t2)
          /\ task[t2].now >= task[t1].now )
        => task[t2].now - task[t1].now >= RATE_LIMIT_SECONDS

\* a request is turned away while the user's accepted request is in flight
C3_Witness ==
    \E t1, t2 \in Tasks :
        /\ t1 < t2
        /\ task[t1].user = task[t2].user
        /\ Accepted(t1)
        /\ InFlight(t1)
        /\ task[t2].gate = "limited"
        /\ task[t2].now >= task[t1].now
        /\ task[t2].now - task[t1].now < RATE_LIMIT_SECONDS

(***************************************************************************)
(* C4.  As claimed: a user's first request is allowed whatever now is; of  *)
(* two successive requests of a user, the outcomes are (allowed,           *)
(* rejected) when the second comes less than 5 seconds after the first     *)
(* and (allowed, allowed) when it comes at least 5 seconds after it.       *)
(***************************************************************************)
FirstRequest(t) ==
    /\ Gated(t)
    /\ \A s \in Tasks : (s < t /\ task[s].user = task[t].user) => ~Gated(s)

SecondRequest(t1, t2) ==
    /\ FirstRequest(t1)
    /\ t1 < t2
    /\ Gated(t2)
    /\ task[t2].user = task[t1].user
    /\ \A s \in Tasks : (t1 < s /\ s < t2 /\ task[s].user = task[t1].user) => ~Gated(s)

C5_TimedOutCallNeverStores ==
    \A t \in Tasks :
        task[t].outcome = "timeout"
        => /\ task[t].reply = MSG_TIMEOUT
           /\ task[t].pc \in {"edit_timeout", "done", "raised"}
           /\ task[t].fc # "done"
           /\ task[t].writes = 0
           /\ task[t].claim \in DOMAIN writer => writer[task[t].claim] # t

\* a call timed out, its handler finished, and its claim has no entry
C5_Witness ==
    \E t \in Tasks :
        /\ task[t].outcome = "timeout"
        /\ task[t].pc = "done"
        /\ task[t].claim \notin DOMAIN fact_cache

(***************************************************************************)
(* C6.  When the retriever's evidence is empty or whitespace-only,         *)
(* fact_check does not call the model, returns exactly the fixed verdict   *)
(* (label Insufficient Evidence, confidence 0%) and does not write         *)
(* fact_cache.                                                             *)
(***************************************************************************)
FixedVerdictLabels ==
    /\ FindFrom(INSUFFICIENT, "<b>Verdict:</b> Insufficient Evidence\n", 1) = 1
    /\ Contains(INSUFFICIENT, "\n<b>Confidence:</b> 0%\n")

C6_InsufficientEvidence ==
    \A t \in Tasks :
        (task[t].bundle.got /\ Strip(task[t].bundle.evidence) = "")
        => /\ task[t].models = 0
           /\ task[t].fc = "done"
           /\ task[t].result = INSUFFICIENT
           /\ FixedVerdictLabels
           /\ task[t].writes = 0
           /\ task[t].claim \in DOMAIN writer => writer[task[t].claim] # t

\* a search that found urls but no text was answered with the fixed verdict
C6_Witness ==
    \E t \in Tasks :
        /\ task[t].bundle.got
        /\ Strip(task[t].bundle.evidence) = ""
        /\ Len(task[t].bundle.urls) > 0
        /\ task[t].pc = "done"
        /\ task[t].claim \notin DOMAIN fact_cache

(***************************************************************************)
(* C7.  As claimed: for every bundle the retriever returned, the text      *)
(* fact_check returns has a Sources section with exactly one bullet line   *)
(* per url, in order, when the bundle has urls, and none when it has not.  *)
(***************************************************************************)
HasSourcesFor(text, urls) ==
    IF Len(urls) = 0 THEN ~Contains(text, "Sources:")
    ELSE /\ Contains(text, SOURCES_HEADER)
         /\ LET lines == SourceLines(text)
            IN  /\ Len(lines) = Len(urls)
                /\ \A i \in 1 .. Len(urls) : lines[i] = BULLET \o escape(urls[i])

C7_Original ==
    \A t \in Tasks :
        (task[t].bundle.got /\ Returned(t))
        => HasSourcesFor(task[t].result, task[t].bundle.urls)

(***************************************************************************)
(* C7, amended.  When the model call succeeds, the returned verdict has a  *)
(* Sources section with exactly one bullet line per url of the bundle      *)
(* (the url HTML-escaped), in retrieval order with duplicates kept, when   *)
(* the bundle has urls, and no such section when it has none.  When the    *)
(* evidence is empty or the model call fails, the returned text (the fixed *)
(* verdict, the failure message) has no Sources section, whatever the      *)
(* bundle's urls.                                                          *)
(***************************************************************************)
FixedTextsHaveNoSources ==
    ~Contains(INSUFFICIENT, "Sources:") /\ ~Contains(AI_FAILED, "Sources:")

C7_Amended ==
    \A t \in Tasks :
        (task[t].bundle.got /\ Returned(t))
        => /\ task[t].outcome = "ok"
              => HasSourcesFor(task[t].result, task[t].bundle.urls)
           /\ task[t].outcome \in {"insufficient", "failed"}
              => /\ task[t].result \in {INSUFFICIENT, AI_FAILED}
                 /\ FixedTextsHaveNoSources

\* a verdict was rendered for a bundle that names the same url twice
C7_Witness ==
    \E t \in Tasks :
        /\ task[t].outcome = "ok"
        /\ Len(task[t].bundle.urls) = 2
        /\ task[t].bundle.urls[1] = task[t].bundle.urls[2]
        /\ task[t].pc = "done"

(***************************************************************************)
(* C8.  As claimed: the evidence search_web returns is never longer than   *)
(* MAX_EVIDENCE_LEN.                                                       *)
(***************************************************************************)
C8_Claim == sout.set => Len(sout.evidence) <= MAX_EVIDENCE_LEN

(***************************************************************************)
(* C9.  When the joined text (the summary and the contents, joined by the  *)
(* separator) is longer than the cap, search_web returns its first         *)
(* MAX_EVIDENCE_LEN characters followed by the truncation marker; a joined *)
(* text of at most the cap is returned unchanged.  The cap is applied to   *)
(* the joined text, not to its segments.                                   *)
(***************************************************************************)
C9_Truncation ==
    (sout.set /\ ~sresp.raises)
    => LET joined == Joined(sresp)
       IN  IF Len(joined) > MAX_EVIDENCE_LEN
           THEN /\ Len(sout.evidence) = MAX_EVIDENCE_LEN + Len(TRUNCATED)
                /\ SubSeq(sout.evidence, 1, MAX_EVIDENCE_LEN)
                       = SubSeq(joined, 1, MAX_EVIDENCE_LEN)
                /\ EndsWith(sout.evidence, TRUNCATED)
           ELSE sout.evidence = joined

\* a text was cut whose segments are all within the cap
C9_Witness ==
    /\ sout.set
    /\ Len(Parts(sresp)) > 1
    /\ \A i \in 1 .. Len(Parts(sresp)) : Len(Parts(sresp)[i]) <= MAX_EVIDENCE_LEN
    /\ Len(Joined(sresp)) > MAX_EVIDENCE_LEN
    /\ EndsWith(sout.evidence, TRUNCATED)

(***************************************************************************)
(* C10.  The step that rejects a request because the user's last accepted  *)
(* request is less than 5 seconds old changes neither user_last_request    *)
(* nor fact_cache, and a rejected request never starts fact_check: no      *)
(* search call, no model call.                                             *)
(***************************************************************************)
HasAccepted(u) == \E s \in Tasks : task[s].user = u /\ Accepted(s)

C10_RejectionChangesNothing ==
    [][ \A t \in Tasks :
            /\ ( /\ task[t].gate = "none"
                 /\ task'[t].gate = "limited"
                 /\ HasAccepted(task'[t].user) )
               => /\ user_last_request' = user_last_request
                  /\ fact_cache' = fact_cache
            /\ task'[t].gate = "limited"
               => /\ task'[t].fc = "none"
                  /\ task'[t].searches = 0
                  /\ task'[t].models = 0
                  /\ task'[t].pc \in {"reply", "done", "raised"} ]_vars

\* a request was rejected behind an accepted one, and its handler returned
C10_Witness ==
    \E s, t \in Tasks :
        /\ s < t
        /\ task[s].user = task[t].user
        /\ Accepted(s)
        /\ task[t].gate = "limited"
        /\ task[t].pc = "done"
        /\ user_last_request[task[t].user] = task[s].now

(***************************************************************************)
(* C11.  Whatever the timestamps of the requests, a clock that steps      *)
(* backwards included, every step that changes a user's entry of           *)
(* user_last_request stores a value strictly greater than the one it       *)
(* replaces, and an entry once present is never removed.                   *)
(***************************************************************************)
C11_RateStateOnlyAdvances ==
    [][ \A u \in DOMAIN user_last_request :
            /\ u \in DOMAIN user_last_request'
            /\ user_last_request'[u] # user_last_request[u]
               => user_last_request'[u] > user_last_request[u] ]_vars

\* a request stamped earlier than the user's accepted one was turned away
\* and the entry still holds the later timestamp
C11_Witness ==
    \E t1, t2 \in Tasks :
        /\ t1 < t2
        /\ task[t1].user = task[t2].user
        /\ Accepted(t1)
        /\ task[t2].gate = "limited"
        /\ task[t2].now < task[t1].now
        /\ user_last_request[task[t1].user] = task[t1].now

(***************************************************************************)
(* C12.  As claimed: for every accepted request, whatever fails during     *)
(* processing, a transport call included, no exception leaves              *)
(* handle_message, and the user receives the rendered verdict or one of    *)
(* the three fixed failure strings.                                        *)
(***************************************************************************)
C12_Claim ==
    \A t \in Tasks :
        Accepted(t)
        => /\ task[t].pc # "raised"
           /\ task[t].pc = "done"
              => task[t].reply \in {task[t].result, AI_FAILED, MSG_TIMEOUT, MSG_ERROR}

(***************************************************************************)
(* C13.  When the search provider raises, search_web returns the empty     *)
(* bundle instead of raising; fact_check then returns exactly the fixed    *)
(* Insufficient-Evidence text, which is not an error message, and never    *)
(* calls the model provider.                                               *)
(***************************************************************************)
C13_RetrievalFailureAbsorbed ==
    \A t \in Tasks :
        task[t].raised
        => /\ task[t].bundle = GotBundle(EmptyBundle)
           /\ task[t].fc = "done"
           /\ task[t].outcome = "insufficient"
           /\ task[t].result = INSUFFICIENT
           /\ task[t].result \notin {AI_FAILED, MSG_TIMEOUT, MSG_ERROR}
           /\ task[t].models = 0
           /\ ~task[t].answer.got

\* the provider raised and the user was shown the fixed verdict
C13_Witness ==
    \E t \in Tasks :
        /\ task[t].raised
        /\ task[t].searches = 1
        /\ task[t].pc = "done"
        /\ task[t].reply = INSUFFICIENT

(***************************************************************************)
(* C14.  As claimed: while a fact_check call waits for the search          *)
(* provider, and likewise while it waits for the model provider, another   *)
(* call in flight (about to run, or waiting for the model provider) can    *)
(* be scheduled: the event loop is free to run it.                         *)
(***************************************************************************)
C14_Claim ==
    \A t, s \in Tasks :
        ( /\ t # s
          /\ task[t].fc \in {"searching", "model_wait"}
          /\ task[s].fc \in {"created", "model_wait"} )
        => LoopFree(s)

(***************************************************************************)
(* C15.  As claimed: a fact_check call that is 40 seconds old has          *)
(* completed before, or has been abandoned with the timeout message,       *)
(* whichever provider is slow.                                             *)
(***************************************************************************)
C15_Claim ==
    \A t \in Tasks :
        task[t].overdue
        => /\ task[t].outcome = "timeout"
           /\ task[t].fc = "cancelled"
           /\ task[t].reply = MSG_TIMEOUT

(***************************************************************************)
(* C16.  As claimed: a model call that yields an empty response is a       *)
(* failed model call: fact_check returns the failure message and stores    *)
(* nothing in fact_cache for that claim.                                   *)
(***************************************************************************)
EmptyResponse(t) ==
    /\ task[t].answer.got
    /\ ~task[t].answer.raises
    /\ Strip(task[t].answer.text) = ""

C16_Claim ==
    \A t \in Tasks :
        EmptyResponse(t)
        => /\ task[t].result = AI_FAILED
           /\ task[t].writes = 0
           /\ task[t].claim \in DOMAIN writer => writer[task[t].claim] # t

(***************************************************************************)
(* C17.  Two fact_check calls with the same claim that overlap can both    *)
(* miss the cache and both call the search and the model provider.  The    *)
(* race leaves the cache sound: a call that ends with a verdict leaves     *)
(* that verdict as the entry of its claim (the later writer's verdict      *)
(* stands), a call that ends otherwise leaves the entry as it was, no      *)
(* step changes the entry of another key, and once both calls have         *)
(* finished the entry is the verdict one of the calls on that claim        *)
(* returned.                                                               *)
(***************************************************************************)
Overlapping(t1, t2) ==
    /\ t1 # t2
    /\ task[t1].claim = task[t2].claim
    /\ task[t1].searches = 1
    /\ task[t2].searches = 1
    /\ t1 \notin task[t2].after
    /\ t2 \notin task[t1].after

SameEntry(k) ==
    /\ k \in DOMAIN fact_cache <=> k \in DOMAIN fact_cache'
    /\ k \in DOMAIN fact_cache => fact_cache'[k] = fact_cache[k]

RaceSettled ==
    \A t1, t2 \in Tasks :
        ( /\ Overlapping(t1, t2)
          /\ task[t1].outcome = "ok"
          /\ task[t2].outcome = "ok" )
        => LET c == task[t1].claim
           IN  /\ c \in DOMAIN fact_cache
               /\ \E t \in Tasks :
                      /\ task[t].claim = c
                      /\ task[t].outcome = "ok"
                      /\ fact_cache[c] = task[t].result
               /\ (\A t \in Tasks \ {t1, t2} : task[t].claim = c => task[t].writes = 0)
                  => fact_cache[c] \in {task[t1].result, task[t2].result}

CallSteps ==
    { <<"none", "created">>,
      <<"created", "done">>, <<"created", "searching">>,
      <<"searching", "done">>, <<"searching", "model_wait">>,
      <<"model_wait", "done">>, <<"model_wait", "cancelled">> }

\* the provider calls and stores a call has made, by its position
Calls(t) == <<task[t].searches, task[t].models, task[t].writes>>

CallShape(t) ==
    /\ task[t].fc \in {"none", "created"} => Calls(t) = <<0, 0, 0>>
    /\ task[t].fc = "searching" => Calls(t) = <<1, 0, 0>>
    /\ task[t].fc \in {"model_wait", "cancelled"}
       => /\ Calls(t) = <<1, 1, 0>>
          /\ task[t].bundle.got
          /\ Strip(task[t].bundle.evidence) # ""
          /\ ~task[t].answer.got
    /\ task[t].fc = "done"
       => CASE task[t].outcome = "hit" ->
                 /\ Calls(t) = <<0, 0, 0>>
                 /\ task[t].saw # 0
            [] task[t].outcome = "insufficient" ->
                 /\ Calls(t) = <<1, 0, 0>>
                 /\ Strip(task[t].bundle.evidence) = ""
            [] task[t].outcome = "failed" ->
                 /\ Calls(t) = <<1, 1, 0>>
                 /\ task[t].answer.raises
                 /\ task[t].result = AI_FAILED
            [] task[t].outcome = "ok" ->
                 /\ Calls(t) = <<1, 1, 1>>
                 /\ Strip(task[t].bundle.evidence) # ""
                 /\ task[t].answer.got
                 /\ ~task[t].answer.raises
            [] OTHER -> FALSE

C18_CallStateMachine ==
    [][ \A t \in Tasks :
            /\ task'[t].fc # task[t].fc => <<task[t].fc, task'[t].fc>> \in CallSteps
            /\ task'[t].fc = task[t].fc => Calls(t)' = Calls(t)
            /\ CallShape(t)' ]_vars

\* one call ended on a failure of the model provider, another on a failure
\* of the search provider, each after a single attempt
C18_Witness ==
    \E t1, t2 \in Tasks :
        /\ task[t1].answer.raises
        /\ task[t1].outcome = "failed"
        /\ Calls(t1) = <<1, 1, 0>>
        /\ task[t1].pc = "done"
        /\ task[t2].raised
        /\ Calls(t2) = <<1, 0, 0>>
        /\ task[t2].pc = "done"

Started(t) == task[t].fc \notin {"none", "created"}

C20_VerdictIgnoresUser ==
    \A t1, t2 \in Tasks :
        (t1 # t2 /\ task[t1].claim = task[t2].claim /\ Started(t2))
        => /\ task[t2].saw = t1
              => /\ task[t2].outcome = "hit"
                 /\ task[t2].result = task[t1].result
                 /\ Calls(t2) = <<0, 0, 0>>
           /\ ( /\ task[t1].user # task[t2].user
                /\ task[t1].saw = 0
                /\ task[t2].saw = 0
                /\ Returned(t1)
                /\ Returned(t2)
                /\ task[t1].bundle = task[t2].bundle
                /\ task[t1].answer = task[t2].answer )
              => /\ task[t1].result = task[t2].result
                 /\ task[t1].outcome = task[t2].outcome
                 /\ Calls(t1) = Calls(t2)

\* the verdict stored by one user's request answered another user's
C20_Witness ==
    \E t1, t2 \in Tasks :
        /\ task[t1].user # task[t2].user
        /\ task[t1].claim = task[t2].claim
        /\ task[t1].outcome = "ok"
        /\ task[t2].saw = t1
        /\ task[t2].outcome = "hit"
        /\ task[t2].result = task[t1].result
        /\ task[t2].pc = "done"

====
